---- MODULE Spec2Model ----
(***************************************************************************)
(* Model of the Fledge "python27" filter plugin (plugin.cpp): the four     *)
(* plugin entry points plugin_init, plugin_ingest, plugin_reconfigure and  *)
(* plugin_shutdown, called by host threads on filter instances that share  *)
(* one embedded interpreter, its global interpreter lock (GIL) and the     *)
(* process-wide flag pythonInitialised.                                    *)
(*                                                                         *)
(* Every entry point is cut into steps at the places where the calling     *)
(* thread can block or where another thread can observe it: the mutex      *)
(* lock()/unlock(), PyGILState_Ensure()/PyGILState_Release(), and the      *)
(* three interpreter phases of plugin_ingest.                              *)
(***************************************************************************)
EXTENDS Naturals, Sequences, FiniteSets

(* ------------------------------- bounds -------------------------------- *)
NumThreads == 2
NumInst == 2
MaxBatch == 1

Threads == 1..NumThreads
Inst == 1..NumInst
NoThread == 0
NoInst == 0

(* --------------------------- inputs of the host ------------------------ *)
\* "script" configuration item: bare module names; "" is the default (no script)
ScriptNames == {"f", "g"}
NoScript == ""
\* "config" configuration item: the JSON blob handed to set_filter_config.
\* A configuration carries the blob written for the script it names; blobs
\* are named by that script.
ConfigFor(script) == script
NoBlob == "none"
\* Records of an input batch, named by asset; "x" carries a value shape that
\* createReadingsList cannot represent.
InAssets == {"a", "x"}
Unsupported == {"x"}
\* Asset names of the readings a script can return
OutAssets == {"a", "b"}

SeqsUpTo(S, n) == UNION {[1..k -> S] : k \in 0..n}
\* Input batches hold at least one reading; a script may return an empty list
InBatches == SeqsUpTo(InAssets, MaxBatch) \ {<<>>}
OutBatches == SeqsUpTo(OutAssets, MaxBatch)

\* A configuration category as the host passes it
Configs == {[enable |-> e, script |-> s, config |-> ConfigFor(s)] :
               e \in BOOLEAN, s \in ScriptNames \cup {NoScript}}
\* A new configuration text for plugin_reconfigure: a category, or unparsable text
InvalidConfig == [enable |-> FALSE, script |-> "?", config |-> NoBlob]
NewConfigs == Configs \cup {InvalidConfig}

\* What PyObject_CallFunction can give back: NULL (the script raised), an object
\* that is no list of single-key dicts, or such a list
ScriptReturns ==
    {[kind |-> "NULL", list |-> <<>>], [kind |-> "bad", list |-> <<>>]}
        \cup {[kind |-> "list", list |-> s] : s \in OutBatches}
NoReturn == [kind |-> "none", list |-> <<>>]

VARIABLES
    pyLive,             \* Py_IsInitialized()
    pythonInitialised,  \* the global flag of plugin.cpp
    gil,                \* the thread holding the GIL, or NoThread
    sysPath,            \* number of entries plugin_init has inserted in sys.path
    initialiser,        \* the instance whose plugin_init ran Py_Initialize for
                        \* the interpreter now live (NoInst when none is live)
    crashed,            \* the process has aborted
    filter,             \* per instance: the Python27Filter object and its handle
    pc,                 \* per thread: position in the entry point it is running
    loc                 \* per thread: locals of the entry point it is running

vars == <<pyLive, pythonInitialised, gil, sysPath, initialiser, crashed, filter, pc, loc>>

NoData == [obj |-> "none", recs |-> <<>>]

IdleLoc ==
    [ op           |-> "none",      \* the entry point running: init, ingest, ...
      inst         |-> NoInst,
      state        |-> "none",      \* PyGILState_STATE state
      readingSet   |-> <<>>,        \* records of the input batch
      origAlive    |-> FALSE,       \* the input ReadingSet object exists
      enabled      |-> FALSE,       \* bool enabled (line 207)
      readingsList |-> FALSE,       \* PyObject* readingsList is a live object
      pReturn      |-> NoReturn,    \* PyObject* pReturn
      retLive      |-> FALSE,       \* pReturn is a live object
      finalData    |-> NoData,      \* ReadingSet* finalData
      sent         |-> <<>>,        \* calls of filter->m_func made by this call
      tracked      |-> <<>>,        \* addAssetTrackingTuple calls made by this call
      errors       |-> 0,           \* Logger error() calls made by plugin_ingest
      steps        |-> <<>>,        \* what plugin_ingest has done to the batches and
                                    \* the GIL, in the order it did it
      called       |-> FALSE,       \* the script function has been invoked
      invoked      |-> <<"NULL", NoBlob>>,  \* function invoked, script config in effect
      before       |-> <<"NULL", NoBlob>>,  \* binding committed when it was invoked
      after        |-> <<"NULL", NoBlob>>,  \* binding a reconfigure in flight commits
      newConfig    |-> InvalidConfig,
      configured   |-> "none",      \* plugin_init: noscript, failed or ok
      ret          |-> "none" ]     \* what plugin_init returned

NoFilter ==
    [ status     |-> "none",   \* none, init, live (handle returned), null, shutdown, gone
      m_enabled  |-> FALSE,
      m_pFunc    |-> "NULL",   \* the bound filter function (named by its script)
      applied    |-> NoBlob,   \* the blob last given to the script's set_filter_config
      committed  |-> <<"NULL", NoBlob>>,  \* <<m_pFunc, applied>> when last complete
      stale      |-> FALSE,    \* m_pFunc was bound in an interpreter since finalized
      mutex      |-> NoThread ]\* holder of the configuration mutex

Init ==
    /\ pyLive = FALSE
    /\ pythonInitialised = FALSE
    /\ gil = NoThread
    /\ sysPath = 0
    /\ initialiser = NoInst
    /\ crashed = FALSE
    /\ filter = [i \in Inst |-> NoFilter]
    /\ pc = [t \in Threads |-> "idle"]
    /\ loc = [t \in Threads |-> IdleLoc]

(* --------------------------- the interpreter --------------------------- *)
\* PyGILState_Ensure: blocks until no other thread holds the GIL; a thread that
\* already holds it gets PyGILState_LOCKED back and keeps it.
CanEnsure(t) == gil = t \/ gil = NoThread
EnsureState(t) == IF gil = t THEN "LOCKED" ELSE "UNLOCKED"
\* PyGILState_Release(state): gives the GIL up iff Ensure took it
Released(t, state) == IF state = "UNLOCKED" THEN NoThread ELSE gil

SetPc(t, p) == pc' = [pc EXCEPT ![t] = p]

\* The process aborts: nothing of it is left
Crash ==
    /\ crashed' = TRUE
    /\ pyLive' = FALSE /\ pythonInitialised' = FALSE /\ gil' = NoThread
    /\ sysPath' = 0 /\ initialiser' = NoInst
    /\ filter' = [i \in Inst |-> NoFilter]
    /\ pc' = [u \in Threads |-> "idle"]
    /\ loc' = [u \in Threads |-> IdleLoc]

\* PyGILState_Ensure at the head of an interpreter section.  Calling it with
\* no initialised interpreter aborts the process.
Ensure(t, next) ==
    /\ ~crashed
    /\ IF pyLive
         THEN /\ CanEnsure(t)
              /\ gil' = t
              /\ loc' = [loc EXCEPT ![t].state = EnsureState(t)]
              /\ SetPc(t, next)
              /\ UNCHANGED <<crashed, pyLive, pythonInitialised, sysPath,
                             initialiser, filter>>
         ELSE Crash

Release(t) == gil' = Released(t, loc[t].state)

\* An entry point running on instance i (the host must drain these before
\* it calls plugin_shutdown on i)
InFlight(i) == \E u \in Threads : pc[u] # "idle" /\ loc[u].inst = i

(* ----------------------------- plugin_init ----------------------------- *)
\* Each plugin_init allocates a new FILTER_INFO: the next unused instance.
\* NumInst bounds the number of plugin_init calls of a run.
Fresh(i) == filter[i].status = "none" /\ \A j \in Inst : j < i => filter[j].status # "none"

\* Lines 124-145: construct the filter (the constructor takes the enable
\* switch from the category), start the interpreter if it is not live
\* (Py_Initialize, PyEval_InitThreads takes the GIL, PyEval_SaveThread gives it
\* back), set pythonInitialised.
plugin_init_start(t, i, enable) ==
    /\ ~crashed /\ pc[t] = "idle" /\ Fresh(i)
    /\ filter' = [filter EXCEPT ![i] =
                    [NoFilter EXCEPT !.status = "init", !.m_enabled = enable]]
    /\ IF ~pyLive
         THEN pyLive' = TRUE /\ pythonInitialised' = TRUE /\ initialiser' = i
         ELSE UNCHANGED <<pyLive, pythonInitialised, initialiser>>
    /\ loc' = [loc EXCEPT ![t] = [IdleLoc EXCEPT !.op = "init", !.inst = i]]
    /\ SetPc(t, "init_gil")
    /\ UNCHANGED <<gil, sysPath, crashed>>

\* Line 147
plugin_init_gil(t) == pc[t] = "init_gil" /\ Ensure(t, "init_body")

\* Python27Filter::setScriptName: false when no script name is configured
setScriptName(script) == script # NoScript

\* Lines 173-176: the flag after configure() failed
FlagAfterConfigureFailure(flag) == FALSE

\* Variant: the handle is returned although configure() failed
ConfigureFailureReturn_Handle == "handle"

\* Lines 178-180: what plugin_init returns when configure() failed
ConfigureFailureReturn == "NULL"

\* Line 178: the GIL after configure() failed
ReleasedOnConfigureFailure(t) == Released(t, loc[t].state)

\* Lines 149-187: insert the scripts path in sys.path, then either disable the
\* filter (the category names no script), or configure it:
\* Python27Filter::configure imports the module and binds the filter function
\* and set_filter_config, and fails when the import raises or an entry point
\* is missing.  Every exit releases the GIL.
plugin_init_body(t, script, configureOK) ==
    LET i == loc[t].inst
        f == filter[i]
    IN  /\ ~crashed /\ pc[t] = "init_body"
        /\ sysPath' = sysPath + 1
        /\ IF ~setScriptName(script)
             THEN /\ filter' = [filter EXCEPT ![i] =
                                  [f EXCEPT !.m_enabled = FALSE, !.status = "live"]]
                  /\ loc' = [loc EXCEPT ![t].ret = "handle", ![t].configured = "noscript"]
                  /\ Release(t)
                  /\ UNCHANGED pythonInitialised
             ELSE IF ~configureOK
             THEN /\ pythonInitialised' = FlagAfterConfigureFailure(pythonInitialised)
                  /\ filter' = [filter EXCEPT ![i] =
                                  [f EXCEPT !.status =
                                     IF ConfigureFailureReturn = "NULL" THEN "null" ELSE "live"]]
                  /\ loc' = [loc EXCEPT ![t].ret = ConfigureFailureReturn,
                                        ![t].configured = "failed"]
                  /\ gil' = ReleasedOnConfigureFailure(t)
             ELSE /\ filter' = [filter EXCEPT ![i] =
                                  [f EXCEPT !.m_pFunc = script, !.applied = ConfigFor(script),
                                            !.committed = <<script, ConfigFor(script)>>,
                                            !.status = "live"]]
                  /\ loc' = [loc EXCEPT ![t].ret = "handle", ![t].configured = "ok"]
                  /\ Release(t)
                  /\ UNCHANGED pythonInitialised
        /\ SetPc(t, "done")
        /\ UNCHANGED <<pyLive, initialiser, crashed>>

(* --------------------------- plugin_shutdown --------------------------- *)
\* The host calls plugin_shutdown on a handle once, with no other call on
\* that handle in flight.
plugin_shutdown_start(t, i) ==
    /\ ~crashed /\ pc[t] = "idle"
    /\ filter[i].status = "live" /\ ~InFlight(i)
    /\ filter' = [filter EXCEPT ![i].status = "shutdown"]
    /\ loc' = [loc EXCEPT ![t] = [IdleLoc EXCEPT !.op = "shutdown", !.inst = i]]
    /\ SetPc(t, "shut_gil")
    /\ UNCHANGED <<pyLive, pythonInitialised, gil, sysPath, initialiser, crashed>>

\* Line 331
plugin_shutdown_gil(t) == pc[t] = "shut_gil" /\ Ensure(t, "shut_body")

\* Variant: the interpreter is finalized only by the last live instance
ShutdownFinalizes_OnlyLast(i) ==
    pythonInitialised /\ \A j \in Inst \ {i} : filter[j].status # "live"

\* Line 339: does this shutdown finalize the interpreter?
ShutdownFinalizes(i) == pythonInitialised

\* Lines 334-348: drop the module and function references, finalize the
\* interpreter if pythonInitialised, delete the filter.  There is no
\* PyGILState_Release; Py_Finalize destroys the interpreter and, with it, the
\* lock state of every thread and every object the other filters have bound.
plugin_shutdown_body(t) ==
    LET i == loc[t].inst
    IN  /\ ~crashed /\ pc[t] = "shut_body"
        /\ filter' = [j \in Inst |->
                        IF j = i THEN [NoFilter EXCEPT !.status = "gone"]
                        ELSE IF ShutdownFinalizes(i) /\ filter[j].m_pFunc # "NULL"
                        THEN [filter[j] EXCEPT !.stale = TRUE]
                        ELSE filter[j]]
        /\ IF ShutdownFinalizes(i)
             THEN /\ pythonInitialised' = FALSE
                  /\ pyLive' = FALSE
                  /\ initialiser' = NoInst
                  /\ gil' = NoThread
                  /\ sysPath' = 0
             ELSE UNCHANGED <<pythonInitialised, pyLive, initialiser, gil, sysPath>>
        /\ SetPc(t, "done")
        /\ UNCHANGED <<crashed, loc>>

\* The entry point returns to the host
Return(t) ==
    /\ ~crashed /\ pc[t] = "done"
    /\ loc' = [loc EXCEPT ![t] = IdleLoc]
    /\ SetPc(t, "idle")
    /\ UNCHANGED <<pyLive, pythonInitialised, gil, sysPath, initialiser, crashed, filter>>

(* -------------------------- plugin_reconfigure ------------------------- *)
\* The new configuration text is chosen where it is first read, in
\* reconfigure_bind.
plugin_reconfigure_start(t, i) ==
    /\ ~crashed /\ pc[t] = "idle"
    /\ filter[i].status = "live"
    /\ loc' = [loc EXCEPT ![t] = [IdleLoc EXCEPT !.op = "reconfigure", !.inst = i]]
    /\ SetPc(t, "rec_gil")
    /\ UNCHANGED <<pyLive, pythonInitialised, gil, sysPath, initialiser, crashed, filter>>

\* Variant: the reconfiguration runs without taking the GIL
plugin_reconfigure_gil_Skipped(t) ==
    /\ ~crashed /\ pc[t] = "rec_gil"
    /\ SetPc(t, "rec_lock")
    /\ UNCHANGED <<pyLive, pythonInitialised, gil, sysPath, initialiser, crashed, filter, loc>>

\* Line 362
plugin_reconfigure_gil(t) == pc[t] = "rec_gil" /\ Ensure(t, "rec_lock")

\* Python27Filter::reconfigure (line 363) takes the configuration mutex for
\* the whole of the update.
reconfigure_lock(t) ==
    LET i == loc[t].inst
    IN  /\ ~crashed /\ pc[t] = "rec_lock"
        /\ filter[i].mutex = NoThread
        /\ filter' = [filter EXCEPT ![i].mutex = t]
        /\ SetPc(t, "rec_bind")
        /\ UNCHANGED <<pyLive, pythonInitialised, gil, sysPath, initialiser, crashed, loc>>

\* The new configuration is rejected when its text does not parse, when it
\* names no script, or when the script it names differs from the bound one
\* and cannot be bound.
Rejected(f, cfg, bindOK) ==
    \/ cfg = InvalidConfig
    \/ cfg.script = NoScript
    \/ (cfg.script # f.m_pFunc /\ ~bindOK)

\* Python27Filter::reconfigure, first half: validate the text and, if the
\* script name differs from the bound one, resolve and bind the new script
\* (the old references are released).  A rejected configuration leaves the
\* binding and the enabled flag as they were.
reconfigure_bind(t, cfg, bindOK) ==
    LET i == loc[t].inst
        f == filter[i]
    IN  /\ ~crashed /\ pc[t] = "rec_bind"
        /\ IF Rejected(f, cfg, bindOK)
             THEN /\ filter' = [filter EXCEPT ![i].mutex = NoThread]
                  /\ SetPc(t, "rec_rel")
                  /\ UNCHANGED loc
             ELSE /\ filter' = [filter EXCEPT ![i] =
                                  [f EXCEPT !.m_pFunc = cfg.script,
                                            !.stale = (f.stale /\ cfg.script = f.m_pFunc)]]
                  /\ loc' = [loc EXCEPT ![t].newConfig = cfg]
                  /\ SetPc(t, "rec_cfg")
        /\ UNCHANGED <<pyLive, pythonInitialised, gil, sysPath, initialiser, crashed>>

\* Python27Filter::reconfigure, second half: hand the "config" blob to the
\* script's set_filter_config, take over the enable switch, unlock the mutex.
\* A call of set_filter_config in a module bound in an interpreter since
\* finalized is undefined: the process may abort there.
reconfigure_apply(t, abort) ==
    LET i == loc[t].inst
        f == filter[i]
        cfg == loc[t].newConfig
    IN  /\ ~crashed /\ pc[t] = "rec_cfg"
        /\ IF f.stale /\ abort
             THEN Crash
             ELSE /\ filter' = [filter EXCEPT ![i] =
                                  [f EXCEPT !.applied = cfg.config,
                                            !.m_enabled = cfg.enable,
                                            !.committed = <<f.m_pFunc, cfg.config>>,
                                            !.mutex = NoThread]]
                  /\ loc' = [loc EXCEPT ![t].newConfig = InvalidConfig]
                  /\ SetPc(t, "rec_rel")
                  /\ UNCHANGED <<pyLive, pythonInitialised, gil, sysPath, initialiser,
                                 crashed>>

\* Line 365
plugin_reconfigure_release(t) ==
    /\ ~crashed /\ pc[t] = "rec_rel"
    /\ Release(t)
    /\ SetPc(t, "done")
    /\ UNCHANGED <<pyLive, pythonInitialised, sysPath, initialiser, crashed, filter, loc>>

(* ----------------------------- plugin_ingest --------------------------- *)
\* The input ReadingSet as an argument of m_func or a value of finalData
Original(t) == [obj |-> "orig", recs |-> loc[t].readingSet]

\* A call filter->m_func(filter->m_data, data): what the sink is handed,
\* whether that object still exists, and whether the caller holds the GIL
SinkCall(t, data, holder) ==
    [obj |-> data.obj, recs |-> data.recs,
     alive |-> (data.obj = "orig" => loc[t].origAlive),
     held |-> (holder = t)]

\* The records of the batch are chosen where the batch is first used, in
\* plugin_ingest_check.
plugin_ingest_start(t, i) ==
    /\ ~crashed /\ pc[t] = "idle"
    /\ filter[i].status = "live"
    /\ loc' = [loc EXCEPT ![t] =
                 [IdleLoc EXCEPT !.op = "ingest", !.inst = i, !.origAlive = TRUE]]
    /\ SetPc(t, "ing_lock")
    /\ UNCHANGED <<pyLive, pythonInitialised, gil, sysPath, initialiser, crashed, filter>>

\* Line 206
plugin_ingest_lock(t) ==
    LET i == loc[t].inst
    IN  /\ ~crashed /\ pc[t] = "ing_lock"
        /\ filter[i].mutex = NoThread
        /\ filter' = [filter EXCEPT ![i].mutex = t]
        /\ SetPc(t, "ing_read")
        /\ UNCHANGED <<pyLive, pythonInitialised, gil, sysPath, initialiser, crashed, loc>>

\* Variant: the mutex is still locked when plugin_ingest goes on (no line 208)
plugin_ingest_read_NoUnlock(t) ==
    /\ ~crashed /\ pc[t] = "ing_read"
    /\ loc' = [loc EXCEPT ![t].enabled = filter[loc[t].inst].m_enabled]
    /\ SetPc(t, "ing_check")
    /\ UNCHANGED <<pyLive, pythonInitialised, gil, sysPath, initialiser, crashed, filter>>

\* Lines 207-208
plugin_ingest_read(t) ==
    LET i == loc[t].inst
    IN  /\ ~crashed /\ pc[t] = "ing_read"
        /\ loc' = [loc EXCEPT ![t].enabled = filter[i].m_enabled]
        /\ filter' = [filter EXCEPT ![i].mutex = NoThread]
        /\ SetPc(t, "ing_check")
        /\ UNCHANGED <<pyLive, pythonInitialised, gil, sysPath, initialiser, crashed>>

\* Variant: the enable switch is not looked at
EnabledAtDecision_Always(t) == TRUE

\* Line 210: the value the passthrough decision is taken on
EnabledAtDecision(t) == filter[loc[t].inst].m_enabled

\* Variant: the readings are asset-tracked before the enable switch is tested
TrackedWhenDisabled_All(rs) == rs

\* Lines 213-214: the asset tracking done on the passthrough of a disabled filter
TrackedWhenDisabled(rs) == <<>>

\* Variant: the passthrough of a disabled filter lacks its return (line 214)
plugin_ingest_check_NoReturn(t, rs) ==
    LET data == [obj |-> "orig", recs |-> rs]
    IN  /\ ~crashed /\ pc[t] = "ing_check"
        /\ IF ~EnabledAtDecision(t)
             THEN loc' = [loc EXCEPT ![t].readingSet = rs,
                                     ![t].sent = Append(@, SinkCall(t, data, gil)),
                                     ![t].tracked = rs]
             ELSE loc' = [loc EXCEPT ![t].readingSet = rs,
                                     ![t].tracked = rs]
        /\ SetPc(t, "ing_gil")
        /\ UNCHANGED <<pyLive, pythonInitialised, gil, sysPath, initialiser, crashed, filter>>

\* Lines 210-224: a disabled filter hands the batch on and returns; an
\* enabled one records an asset tracking tuple per input reading.
plugin_ingest_check(t, rs) ==
    LET i == loc[t].inst
        data == [obj |-> "orig", recs |-> rs]
    IN  /\ ~crashed /\ pc[t] = "ing_check"
        /\ IF ~EnabledAtDecision(t)
             THEN /\ loc' = [loc EXCEPT ![t].readingSet = rs,
                                        ![t].sent = Append(@, SinkCall(t, data, gil)),
                                        ![t].tracked = TrackedWhenDisabled(rs),
                                        ![t].steps = Append(@, "forward")]
                  /\ SetPc(t, "done")
             ELSE /\ loc' = [loc EXCEPT ![t].readingSet = rs,
                                        ![t].tracked = rs]
                  /\ SetPc(t, "ing_gil")
        /\ UNCHANGED <<pyLive, pythonInitialised, gil, sysPath, initialiser, crashed, filter>>

\* Variant: the interpreter section of plugin_ingest starts without the GIL
plugin_ingest_gil_Skipped(t) ==
    /\ ~crashed /\ pc[t] = "ing_gil"
    /\ SetPc(t, "ing_marshal")
    /\ UNCHANGED <<pyLive, pythonInitialised, gil, sysPath, initialiser, crashed, filter, loc>>

\* Line 233
plugin_ingest_gil(t) == pc[t] = "ing_gil" /\ Ensure(t, "ing_marshal")

\* Python27Filter::createReadingsList: no object (NULL) when a reading of the
\* batch has a value it cannot represent
createReadingsList(rs) == \A k \in 1..Len(rs) : rs[k] \notin Unsupported

\* Variant: the marshal failure path lacks its return (line 252)
plugin_ingest_marshal_NoReturn(t) ==
    /\ ~crashed /\ pc[t] = "ing_marshal"
    /\ IF ~createReadingsList(loc[t].readingSet)
         THEN /\ loc' = [loc EXCEPT ![t].errors = @ + 1,
                                    ![t].sent = Append(@, SinkCall(t, Original(t), gil))]
              /\ Release(t)
         ELSE /\ loc' = [loc EXCEPT ![t].readingsList = TRUE]
              /\ UNCHANGED gil
    /\ SetPc(t, "ing_call")
    /\ UNCHANGED <<pyLive, pythonInitialised, sysPath, initialiser, crashed, filter>>

\* Lines 236-253: build the script's input; on failure log, hand the input
\* batch on, release the GIL and return.
plugin_ingest_marshal(t) ==
    LET i == loc[t].inst
    IN  /\ ~crashed /\ pc[t] = "ing_marshal"
        /\ IF ~createReadingsList(loc[t].readingSet)
             THEN /\ loc' = [loc EXCEPT ![t].errors = @ + 1,
                                        ![t].sent = Append(@, SinkCall(t, Original(t), gil)),
                                        ![t].steps = @ \o <<"forward", "release">>]
                  /\ Release(t)
                  /\ SetPc(t, "done")
             ELSE /\ loc' = [loc EXCEPT ![t].readingsList = TRUE]
                  /\ SetPc(t, "ing_call")
                  /\ UNCHANGED gil
        /\ UNCHANGED <<pyLive, pythonInitialised, sysPath, initialiser, crashed, filter>>

\* The binding a reconfigure of instance i now between its two halves will
\* commit; the committed binding when there is none
BindingAfter(i) ==
    LET mid == {r \in Threads : pc[r] = "rec_cfg" /\ loc[r].inst = i}
    IN  IF mid = {} THEN filter[i].committed
        ELSE <<filter[i].m_pFunc, loc[CHOOSE r \in mid : TRUE].newConfig.config>>

\* Lines 256-261: call filter->m_pFunc with the list, then drop the list.
\* The script runs with the configuration last given to set_filter_config.
\* A call through a function bound in an interpreter since finalized is
\* undefined: the process may abort there, or the call may go through.
plugin_ingest_call(t, r, abort) ==
    LET i == loc[t].inst
        f == filter[i]
    IN  /\ ~crashed /\ pc[t] = "ing_call"
        /\ f.m_pFunc = "NULL" => r.kind = "NULL"
        /\ IF f.stale /\ abort
             THEN Crash
             ELSE /\ loc' = [loc EXCEPT ![t].pReturn = r,
                                        ![t].retLive = (r.kind # "NULL"),
                                        ![t].called = TRUE,
                                        ![t].invoked = <<f.m_pFunc, f.applied>>,
                                        ![t].before = f.committed,
                                        ![t].after = BindingAfter(i),
                                        ![t].readingsList = FALSE]
                  /\ SetPc(t, "ing_result")
                  /\ UNCHANGED <<pyLive, pythonInitialised, gil, sysPath, initialiser,
                                 crashed, filter>>

\* Variant: finalData is left NULL when the call gave NULL
FinalDataOnCallFailure_Null(t) == NoData

\* Line 280: finalData when the call gave NULL
FinalDataOnCallFailure(t) == Original(t)

\* Line 310: finalData when getFilteredReadings gave NULL
FinalDataOnConversionFailure(t) == Original(t)

\* Python27Filter::getFilteredReadings: the new readings, or NULL (FALSE) when
\* the returned object is not a list of well-formed single-key dicts
getFilteredReadings(r) == r.kind = "list"

\* Variant: the input batch is deleted after the new one is built and tracked
ConsumeSteps_DeleteLast == <<"construct", "track", "delete">>

\* Lines 290-302: the order of the statements of the success branch
ConsumeSteps == <<"delete", "construct", "track">>

\* Variant: pReturn is not dropped
pReturnAfterClear_Kept(t) == loc[t].retLive

\* Line 314: Py_CLEAR(pReturn) leaves no live object
pReturnAfterClear(t) == FALSE

\* Lines 263-317: NULL from the call or from getFilteredReadings keeps the
\* input batch; otherwise the input batch is deleted, a new ReadingSet is
\* built from the new readings and each of them is asset-tracked.  pReturn is
\* dropped and the GIL released.
plugin_ingest_result(t) ==
    LET r == loc[t].pReturn
    IN  /\ ~crashed /\ pc[t] = "ing_result"
        /\ IF r.kind = "NULL"
             THEN loc' = [loc EXCEPT ![t].errors = @ + 1,
                                     ![t].finalData = FinalDataOnCallFailure(t),
                                     ![t].steps = Append(@, "release")]
             ELSE IF ~getFilteredReadings(r)
             THEN loc' = [loc EXCEPT ![t].finalData = FinalDataOnConversionFailure(t),
                                     ![t].retLive = pReturnAfterClear(t),
                                     ![t].steps = Append(@, "release")]
             ELSE loc' = [loc EXCEPT ![t].origAlive = FALSE,
                                     ![t].finalData = [obj |-> "new", recs |-> r.list],
                                     ![t].tracked = @ \o r.list,
                                     ![t].retLive = pReturnAfterClear(t),
                                     ![t].steps = (@ \o ConsumeSteps) \o <<"release">>]
        /\ Release(t)
        /\ SetPc(t, "ing_fwd")
        /\ UNCHANGED <<pyLive, pythonInitialised, sysPath, initialiser, crashed, filter>>

\* Line 320
plugin_ingest_forward(t) ==
    LET i == loc[t].inst
    IN  /\ ~crashed /\ pc[t] = "ing_fwd"
        /\ loc' = [loc EXCEPT ![t].sent = Append(@, SinkCall(t, loc[t].finalData, gil)),
                                ![t].steps = Append(@, "forward")]
        /\ SetPc(t, "done")
        /\ UNCHANGED <<pyLive, pythonInitialised, gil, sysPath, initialiser, crashed, filter>>

(* ------------------------------ the system ----------------------------- *)
plugin_init(t) ==
    \/ \E i \in Inst, enable \in BOOLEAN : plugin_init_start(t, i, enable)
    \/ plugin_init_gil(t)
    \/ \E script \in ScriptNames \cup {NoScript}, ok \in BOOLEAN :
           plugin_init_body(t, script, ok)

plugin_ingest(t) ==
    \/ \E i \in Inst : plugin_ingest_start(t, i)
    \/ plugin_ingest_lock(t)
    \/ plugin_ingest_read(t)
    \/ \E rs \in InBatches : plugin_ingest_check(t, rs)
    \/ plugin_ingest_gil(t)
    \/ plugin_ingest_marshal(t)
    \/ \E r \in ScriptReturns, abort \in BOOLEAN : plugin_ingest_call(t, r, abort)
    \/ plugin_ingest_result(t)
    \/ plugin_ingest_forward(t)

plugin_reconfigure(t) ==
    \/ \E i \in Inst : plugin_reconfigure_start(t, i)
    \/ plugin_reconfigure_gil(t)
    \/ reconfigure_lock(t)
    \/ \E cfg \in NewConfigs, ok \in BOOLEAN : reconfigure_bind(t, cfg, ok)
    \/ \E abort \in BOOLEAN : reconfigure_apply(t, abort)
    \/ plugin_reconfigure_release(t)

plugin_shutdown(t) ==
    \/ \E i \in Inst : plugin_shutdown_start(t, i)
    \/ plugin_shutdown_gil(t)
    \/ plugin_shutdown_body(t)

Next ==
    \E t \in Threads :
        \/ plugin_init(t)
        \/ plugin_ingest(t)
        \/ plugin_reconfigure(t)
        \/ plugin_shutdown(t)
        \/ Return(t)

Spec == Init /\ [][Next]_vars

(* ------------------------------- claims -------------------------------- *)
Count(s, a) == Cardinality({k \in 1..Len(s) : s[k] = a})

\* A plugin_ingest call that has done all its work and is about to return
IngestDone(t) == pc[t] = "done" /\ loc[t].op = "ingest"

\* The one call of the sink that hands on the input batch, intact
PassedOriginal(t) ==
    /\ Len(loc[t].sent) = 1
    /\ loc[t].sent[1].obj = "orig"
    /\ loc[t].sent[1].alive
    /\ loc[t].sent[1].recs = loc[t].readingSet
    /\ loc[t].origAlive

\* The call took the GIL and createReadingsList gave no object
MarshalFailed(t) ==
    loc[t].op = "ingest" /\ loc[t].state # "none" /\ ~createReadingsList(loc[t].readingSet)

\* C1: when the script call gives no result, or its result cannot be converted
\* into a batch, the sink receives the input batch object, neither destroyed
\* nor modified.
C1_FallbackOnScriptFailure ==
    \A t \in Threads :
        (IngestDone(t) /\ loc[t].called /\ loc[t].pReturn.kind \in {"NULL", "bad"})
            => PassedOriginal(t)

C1_Witness ==
    \E t \in Threads :
        IngestDone(t) /\ loc[t].called /\ loc[t].pReturn.kind = "NULL" /\ PassedOriginal(t)

\* C2: when building the script's input fails, the step of plugin_ingest that
\* finds it out hands the input batch on unchanged, logs exactly one error,
\* has not invoked the script, ends the call and leaves every filter's
\* enabled flag and binding as they were.
C2_FallbackOnMarshalFailure ==
    [][\A t \in Threads :
          (pc[t] = "ing_marshal" /\ ~createReadingsList(loc[t].readingSet)
             /\ pc'[t] # "ing_marshal" /\ ~crashed')
            => /\ pc'[t] = "done"
               /\ PassedOriginal(t)'
               /\ loc'[t].errors = 1
               /\ ~loc'[t].called
               /\ filter' = filter]_vars

C2_Witness ==
    \E t \in Threads :
        IngestDone(t) /\ MarshalFailed(t) /\ PassedOriginal(t) /\ loc[t].errors = 1

\* C3: a plugin_init that finds no script name disables the filter and
\* returns a handle; and a plugin_ingest that takes its decision while the
\* filter is disabled hands on the very same batch object, without taking the
\* GIL, invoking the script or creating a native object.
C3_DisabledPassthrough ==
    [][\A t \in Threads :
          /\ (pc[t] = "init_body" /\ pc'[t] = "done" /\ loc'[t].configured = "noscript")
               => /\ loc'[t].ret = "handle"
                  /\ filter'[loc[t].inst].status = "live"
                  /\ ~filter'[loc[t].inst].m_enabled
          /\ (pc[t] = "ing_check" /\ ~filter[loc[t].inst].m_enabled
                /\ pc'[t] # "ing_check" /\ ~crashed')
               => /\ pc'[t] = "done"
                  /\ PassedOriginal(t)'
                  /\ gil' = gil
                  /\ loc'[t].state = "none"
                  /\ ~loc'[t].called
                  /\ ~loc'[t].readingsList /\ ~loc'[t].retLive]_vars

C3_Witness ==
    \E t \in Threads :
        /\ IngestDone(t) /\ PassedOriginal(t)
        /\ loc[t].state = "none" /\ ~loc[t].called
        /\ ~filter[loc[t].inst].m_enabled /\ filter[loc[t].inst].m_pFunc = "NULL"

\* C4: a plugin_ingest call that returns has called the sink exactly once,
\* with the input batch or with the replacement batch, and no call is ever
\* past its first sink call and making another.
C4_SinkExactlyOnce ==
    \A t \in Threads :
        /\ Len(loc[t].sent) <= 1
        /\ IngestDone(t) =>
             /\ Len(loc[t].sent) = 1
             /\ loc[t].sent[1].obj \in {"orig", "new"}
             /\ loc[t].sent[1].alive
             /\ (loc[t].sent[1].obj = "new") = ~loc[t].origAlive

C4_Witness ==
    \E t \in Threads :
        IngestDone(t) /\ Len(loc[t].sent) = 1 /\ loc[t].sent[1].obj = "new"
            /\ ~loc[t].origAlive

\* The calling thread is inside an interpreter section: past a
\* PyGILState_Ensure and not yet past the release (or the end) of its entry point
InSection(t) ==
    pc[t] \in {"init_body", "ing_marshal", "ing_call", "ing_result",
               "rec_lock", "rec_bind", "rec_cfg", "rec_rel", "shut_body"}

\* C5: a thread inside an interpreter section holds the GIL, so at most one
\* thread is inside one at any instant; plugin_ingest holds it from before
\* createReadingsList, through the script call, until after the result is
\* converted, so the sections of two calls never interleave.
C5_MutualExclusion ==
    /\ \A t \in Threads : InSection(t) => gil = t
    /\ \A t, u \in Threads : (InSection(t) /\ InSection(u)) => t = u

C5_Witness ==
    \E t, u \in Threads :
        /\ pc[t] = "ing_call" /\ gil = t
        /\ pc[u] \in {"ing_gil", "rec_gil"}

\* C6, as claimed: every record handed to the sink has had exactly one asset
\* tracking tuple recorded for it by this call.
C6_TrackedExactlyOnce ==
    \A t \in Threads :
        IngestDone(t) =>
            \A k \in 1..Len(loc[t].sent) : \A a \in InAssets \cup OutAssets :
                Count(loc[t].tracked, a) = Count(loc[t].sent[k].recs, a)

\* C6, amended: the passthrough of a disabled filter records no tuple; every
\* other call records one tuple per input record, before it takes the GIL,
\* and one more per record of the replacement batch when it hands one on; so
\* on those calls every record handed on has been recorded at least once.
C6_TrackedPerPath ==
    \A t \in Threads :
        IngestDone(t) =>
            /\ Len(loc[t].sent) = 1
            /\ IF loc[t].state = "none"
                 THEN loc[t].tracked = <<>>
                 ELSE /\ loc[t].tracked =
                           loc[t].readingSet \o
                             (IF loc[t].sent[1].obj = "new" THEN loc[t].sent[1].recs ELSE <<>>)
                      /\ \A k \in 1..Len(loc[t].sent[1].recs) :
                           Count(loc[t].tracked, loc[t].sent[1].recs[k]) >= 1

C6_Witness ==
    \E t \in Threads :
        /\ IngestDone(t) /\ Len(loc[t].sent) = 1
        /\ loc[t].sent[1].obj = "new" /\ loc[t].sent[1].recs = <<"a">>
        /\ loc[t].readingSet = <<"a">>
        /\ Count(loc[t].tracked, "a") = 2

\* C7: a plugin_init whose configure() failed returns NULL with the GIL
\* released, and no entry point other than that plugin_init ever runs on
\* the instance, so its sink is never called.
C7_InitFailure ==
    /\ \A t \in Threads :
         (pc[t] = "done" /\ loc[t].configured = "failed")
            => /\ loc[t].ret = "NULL"
               /\ filter[loc[t].inst].status = "null"
               /\ (loc[t].state = "UNLOCKED" => gil # t)
    /\ \A i \in Inst : \A t \in Threads :
         (filter[i].m_pFunc = "NULL" /\ filter[i].status \in {"init", "null"}
             /\ loc[t].inst = i)
            => (loc[t].op = "init" /\ loc[t].sent = <<>>)
    /\ \A t \in Threads :
         (loc[t].op = "ingest") => filter[loc[t].inst].status = "live"

C7_Witness ==
    \E t \in Threads :
        /\ pc[t] = "done" /\ loc[t].configured = "failed" /\ loc[t].ret = "NULL"
        /\ gil = NoThread
        /\ filter[loc[t].inst].status = "null"

\* C8, as claimed: the interpreter is finalized only by the plugin_shutdown
\* of the instance whose plugin_init initialised it.
C8_OnlyInitialiserFinalizes ==
    [][(pyLive /\ ~pyLive' /\ ~crashed')
         => \E t \in Threads : pc[t] = "shut_body" /\ loc[t].inst = initialiser]_vars

\* C9: the function a plugin_ingest invokes and the script configuration in
\* effect for that call are the binding committed before a reconfiguration in
\* flight on the instance or the binding that reconfiguration commits.
C9_ReconfigureAtomic ==
    \A t \in Threads :
        (pc[t] \in {"ing_result", "ing_fwd", "done"} /\ loc[t].called)
            => loc[t].invoked \in {loc[t].before, loc[t].after}

C9_Witness ==
    \E t, r \in Threads :
        /\ pc[t] = "ing_result" /\ loc[t].called
        /\ pc[r] = "rec_gil" /\ loc[r].inst = loc[t].inst
        /\ loc[t].invoked = <<"g", ConfigFor("g")>>
        /\ filter[loc[t].inst].m_enabled

\* C10, as claimed: a thread that is not inside an entry point does not hold
\* the GIL: every acquisition is released before the entry point returns.
C10_LockReleasedOnReturn ==
    \A t \in Threads : pc[t] \in {"idle", "done"} => gil # t

\* C11, as claimed: plugin_ingest takes the passthrough exactly when the value
\* of the enabled flag it read with the configuration mutex held is false; no
\* reconfiguration after that read changes the decision.
C11_DecidesOnProtectedRead ==
    [][\A t \in Threads :
          (pc[t] = "ing_check" /\ pc'[t] # "ing_check" /\ ~crashed')
            => ((pc'[t] = "done") = ~loc[t].enabled)]_vars

\* C12, as claimed: the sink is never called by a thread that holds the GIL,
\* and no thread asks for the GIL while it holds it.
C12_SinkAfterRelease ==
    \A t \in Threads :
        /\ loc[t].state # "LOCKED"
        /\ \A k \in 1..Len(loc[t].sent) : ~loc[t].sent[k].held

\* The call has replaced the input batch by a new one
Consumed(t) == loc[t].op = "ingest" /\ loc[t].finalData.obj = "new"

\* C13: a plugin_ingest whose script result converts deletes the input batch,
\* builds the new one, asset-tracks every new reading, releases the GIL and
\* then hands the new batch on, in that order; the input batch is deleted on
\* no other path, and a deleted batch is neither handed on nor kept as
\* finalData.
C13_SuccessPathOrder ==
    \A t \in Threads :
        /\ (pc[t] = "ing_fwd" /\ Consumed(t))
             => /\ loc[t].steps = <<"delete", "construct", "track", "release">>
                /\ loc[t].tracked = loc[t].readingSet \o loc[t].finalData.recs
                /\ (loc[t].state = "UNLOCKED" => gil # t)
        /\ (IngestDone(t) /\ Consumed(t))
             => /\ loc[t].steps = <<"delete", "construct", "track", "release", "forward">>
                /\ Len(loc[t].sent) = 1
                /\ loc[t].sent[1].obj = "new"
                /\ loc[t].sent[1].recs = loc[t].finalData.recs
                /\ (loc[t].state = "UNLOCKED" => ~loc[t].sent[1].held)
        /\ (loc[t].op = "ingest" /\ ~loc[t].origAlive)
             => (Consumed(t) /\ loc[t].called /\ loc[t].pReturn.kind = "list")
        /\ (loc[t].op = "ingest" /\ ~Consumed(t))
             => \A k \in 1..Len(loc[t].steps) : loc[t].steps[k] # "delete"
        /\ loc[t].finalData.obj = "orig" => loc[t].origAlive
        /\ \A k \in 1..Len(loc[t].sent) : loc[t].sent[k].alive

C13_Witness ==
    \E t \in Threads :
        /\ IngestDone(t) /\ Consumed(t) /\ ~loc[t].origAlive
        /\ loc[t].steps = <<"delete", "construct", "track", "release", "forward">>
        /\ loc[t].sent[1].obj = "new" /\ ~loc[t].sent[1].held
        /\ loc[t].finalData.recs = <<"b">>

\* C14, as claimed: a plugin_init that did not start the interpreter leaves
\* the interpreter's liveness, the flag pythonInitialised and sys.path as it
\* found them, whatever it returns.
C14_InitIdempotent ==
    [][\A t \in Threads :
          (pc[t] = "init_body" /\ pc'[t] = "done" /\ initialiser # loc[t].inst)
            => /\ pyLive' = pyLive
               /\ pythonInitialised' = pythonInitialised
               /\ sysPath' = sysPath]_vars

\* An instance that has a handle, is not shut down and has a script bound
Expecting(j) == filter[j].status = "live" /\ filter[j].m_pFunc # "NULL"

\* C15: a plugin_shutdown that finds pythonInitialised set finalizes the
\* interpreter although another instance is initialised, not shut down and
\* has a script bound; that instance is left with a binding into an
\* interpreter that is gone.
C15_FinalizeUnderLiveInstance ==
    [][\A t \in Threads :
          (pc[t] = "shut_body" /\ pc'[t] = "done" /\ pythonInitialised
             /\ \E j \in Inst \ {loc[t].inst} : Expecting(j))
            => /\ ~pyLive'
               /\ \E j \in Inst \ {loc[t].inst} :
                     /\ filter'[j].status = "live"
                     /\ filter'[j].m_pFunc # "NULL"
                     /\ filter'[j].stale]_vars

C15_Witness ==
    /\ ~crashed /\ ~pyLive
    /\ \E i, j \in Inst :
         /\ i # j
         /\ filter[i].status = "gone"
         /\ Expecting(j) /\ filter[j].stale

\* C16: a plugin_ingest call that is about to return holds no Python object
\* it created: the list built for the script is dropped right after the
\* call, before the result is looked at, and the result is dropped whether
\* or not it converts.
C16_NativeObjectsReleased ==
    \A t \in Threads :
        /\ IngestDone(t) => (~loc[t].readingsList /\ ~loc[t].retLive)
        /\ pc[t] \in {"ing_result", "ing_fwd"} => ~loc[t].readingsList
        /\ pc[t] = "ing_fwd" => ~loc[t].retLive
        /\ loc[t].readingsList => pc[t] = "ing_call"
        /\ loc[t].retLive => pc[t] = "ing_result"

C16_Witness ==
    \E t \in Threads :
        /\ IngestDone(t) /\ loc[t].called /\ loc[t].pReturn.kind = "bad"
        /\ ~loc[t].readingsList /\ ~loc[t].retLive

\* The thread is blocked in PyGILState_Ensure, or in lock(), on thread u
WaitsOn(t, u) ==
    /\ t # u
    /\ \/ pc[t] \in {"init_gil", "shut_gil", "rec_gil", "ing_gil"} /\ gil = u
       \/ pc[t] \in {"ing_lock", "rec_lock"} /\ filter[loc[t].inst].mutex = u

\* C17: a thread holds the configuration mutex only between lock() and
\* unlock() of plugin_ingest, where it asks for no other lock, or inside
\* reconfigure, where it already holds the GIL; so no set of threads is
\* waiting in a cycle for the GIL and the mutex.
C17_NoCyclicWait ==
    /\ \A i \in Inst : \A t \in Threads :
         filter[i].mutex = t
            => /\ loc[t].inst = i
               /\ \/ pc[t] = "ing_read"
                  \/ pc[t] \in {"rec_bind", "rec_cfg"} /\ gil = t
    /\ \A t \in Threads :
         pc[t] = "rec_lock" => gil = t
    /\ \A S \in (SUBSET Threads) \ {{}} :
         \E t \in S : \A u \in S : ~WaitsOn(t, u)

C17_Witness ==
    \E t, u \in Threads :
        /\ pc[t] = "rec_lock" /\ gil = t
        /\ pc[u] = "ing_read" /\ filter[loc[u].inst].mutex = u
        /\ loc[t].inst = loc[u].inst

\* C19, as claimed: when no call is running and every instance that was
\* handed to the host has been shut down, the interpreter is not live.
C19_NoInterpreterLeftLive ==
    (/\ ~crashed
     /\ \A t \in Threads : pc[t] = "idle"
     /\ \A i \in Inst : filter[i].status \in {"none", "null", "gone"})
        => ~pyLive

\* PyGILState_Ensure and lock(): the calls in which a thread can block
Acquire(t) ==
    \/ plugin_init_gil(t) \/ plugin_ingest_gil(t)
    \/ plugin_reconfigure_gil(t) \/ plugin_shutdown_gil(t)
    \/ plugin_ingest_lock(t) \/ reconfigure_lock(t)

\* Every other step of an entry point that has been entered, and its return
Proceed(t) ==
    \/ \E script \in ScriptNames \cup {NoScript}, ok \in BOOLEAN :
           plugin_init_body(t, script, ok)
    \/ plugin_ingest_read(t)
    \/ \E rs \in InBatches : plugin_ingest_check(t, rs)
    \/ plugin_ingest_marshal(t)
    \/ \E r \in ScriptReturns, abort \in BOOLEAN : plugin_ingest_call(t, r, abort)
    \/ plugin_ingest_result(t)
    \/ plugin_ingest_forward(t)
    \/ \E cfg \in NewConfigs, ok \in BOOLEAN : reconfigure_bind(t, cfg, ok)
    \/ \E abort \in BOOLEAN : reconfigure_apply(t, abort)
    \/ plugin_reconfigure_release(t)
    \/ plugin_shutdown_body(t)
    \/ Return(t)

\* A thread inside an entry point keeps running, every script call returns,
\* and a thread that asks for the GIL or the mutex again and again while it
\* is free again and again gets it.  The host need not make further calls.
Fairness == \A t \in Threads : WF_vars(Proceed(t)) /\ SF_vars(Acquire(t))

LiveSpec == Spec /\ Fairness

ShutdownInFlight == \E u \in Threads : loc[u].op = "shutdown"

\* C18, as claimed: with fair scheduling and returning scripts, a
\* plugin_ingest that is running while no plugin_shutdown is in flight goes on
\* to call the sink once and reach its return, unless a plugin_shutdown
\* comes in flight first.
C18_IngestCompletes ==
    \A t \in Threads :
        (loc[t].op = "ingest" /\ ~ShutdownInFlight)
            ~> ((IngestDone(t) /\ Len(loc[t].sent) = 1) \/ ShutdownInFlight)

====
